---- MODULE Spec2Model ----
(***************************************************************************)
(* Model of the shift generation and assignment engine of the workplace    *)
(* scheduler (src/App.py, create_shifts_from_availability and the helpers  *)
(* it calls).                                                              *)
(*                                                                         *)
(* Time.  The code works on decimal hours held in Python floats (IEEE      *)
(* doubles) and stores the bounds of a shift as "HH:MM" strings, which it  *)
(* parses again when it subtracts the shifts of a day from a block.  The   *)
(* model keeps the doubles: a double x is the pair <<t, e>> with           *)
(*     x = t/60 + e/(60 * 2^58) hours,                                     *)
(* t the whole minute nearest to x and e the rounding error left by the    *)
(* float operations.  Every double the engine computes is a sum or a       *)
(* difference of "HH:MM" values and whole hours, so e stays small and the  *)
(* operations below are exact.  A string "HH:MM" is the pair <<h, m>>.     *)
(***************************************************************************)
EXTENDS Integers, Sequences, FiniteSets, TLC

\* ------------------------------------------------------------------------
\* Bounds of the model
\* ------------------------------------------------------------------------
MaxWorkers == 2          \* roster size
MaxOps == 2              \* operation blocks per day
MaxWeekHours == 9        \* open hours per week
MaxHoursBound == 5       \* max_hours_per_worker ranges over 1..MaxHoursBound
MaxPerShiftBound == 2    \* max_workers_per_shift ranges over 1..MaxPerShiftBound
MaxRuns == 2             \* calls of create_shifts_from_availability in a session
MaxBelow == 1            \* limits that are not positive range over -MaxBelow..0
MaxEdits == 2            \* manual reassignments in one schedule dialog
MaxRows == 2             \* rows of the workplace's Excel file

\* ------------------------------------------------------------------------
\* Program constants
\* ------------------------------------------------------------------------
HOUR == 60               \* minutes per hour, the divisor of time_to_hour
OVERNIGHT == 24          \* hours added to an end that wraps past midnight
WORK_STUDY_HOURS == 5    \* the work-study quota, in hours
MIN_SLOT_HOURS == 2      \* slots shorter than this are skipped
LOW_HOURS == 4           \* below this a regular worker is "low hours"
FRACTION_BITS == 52      \* fraction bits of a double
FINE_BITS == 6           \* 1/60 > 2^-6: the finest binade a minute falls in
MAX_BINADE == 5          \* the doubles of a run are below 2^6 hours

DAYS == <<"Monday", "Tuesday">>
DaySet == {DAYS[i] : i \in 1..Len(DAYS)}

\* shift_lengths with a 1-hour length added
shift_lengths_with_one == {1, 2, 3, 4, 5}

\* shift_lengths = [2, 3, 4, 5]
shift_lengths == {2, 3, 4, 5}

\* ------------------------------------------------------------------------
\* Generic helpers
\* ------------------------------------------------------------------------
Range(s) == {s[i] : i \in 1..Len(s)}

Min2(a, b) == IF a <= b THEN a ELSE b
MinOf(S) == CHOOSE x \in S : \A y \in S : x <= y

\* all sequences of length <= n over S
SeqsUpTo(S, n) == UNION {[1..k -> S] : k \in 0..n}

RECURSIVE Pow2(_)
Pow2(n) == IF n = 0 THEN 1 ELSE 2 * Pow2(n - 1)

\* 2^n modulo M, twelve bits at a time
RECURSIVE Pow2Mod(_, _)
Pow2Mod(n, M) ==
    IF n <= 12 THEN Pow2(n) % M ELSE (Pow2(12) * Pow2Mod(n - 12, M)) % M

\* ------------------------------------------------------------------------
\* Float arithmetic of the code
\* ------------------------------------------------------------------------
\* <<t, e>> is the number (t * 2^58 + e) / (60 * 2^58); it is a multiple N of
\* 2^-58 exactly when 60 divides t * 2^58 + e, and then 60 * N = t * 2^58 + e
ZERO == <<0, 0>>

\* float(k) for an int k
FromInt(k) == <<k * HOUR, 0>>

\* x < y, x <= y
FLt(x, y) == x[1] < y[1] \/ (x[1] = y[1] /\ x[2] < y[2])
FLe(x, y) == x[1] < y[1] \/ (x[1] = y[1] /\ x[2] <= y[2])

\* min(x, y), max(x, y)
FMin(x, y) == IF FLe(x, y) THEN x ELSE y
FMax(x, y) == IF FLe(y, x) THEN x ELSE y

\* x >= 2^b, for a whole b
AtLeastPow2(x, b) ==
    IF b >= 0
    THEN x[1] > HOUR * Pow2(b) \/ (x[1] = HOUR * Pow2(b) /\ x[2] >= 0)
    ELSE x[1] * Pow2(0 - b) > HOUR \/ (x[1] * Pow2(0 - b) = HOUR /\ x[2] >= 0)

\* the binade of x: 2^b <= x < 2^(b+1)
Binade(x) ==
    CHOOSE b \in (0 - FINE_BITS)..MAX_BINADE :
        AtLeastPow2(x, b) /\ (b = MAX_BINADE \/ ~AtLeastPow2(x, b + 1))

\* 2^58 modulo 2 * 60 * G, for the G of each binade
ScaleMod ==
    [b \in (0 - FINE_BITS)..MAX_BINADE |->
        Pow2Mod(FRACTION_BITS + FINE_BITS, 2 * HOUR * Pow2(b + FINE_BITS))]

\* the double nearest to the number x >= 0, ties to even: in the binade b the
\* doubles are the multiples of G = 2^(b - 52), here in units of 2^-58; r is
\* N modulo 2G.  Whole quarter hours are doubles, and so are the numbers of
\* a run below 2^-6.
FRound(x) ==
    IF (x[2] = 0 /\ x[1] % 15 = 0) \/ ~AtLeastPow2(x, 0 - FINE_BITS) THEN x
    ELSE LET G == Pow2(Binade(x) + FINE_BITS)
             M == 2 * HOUR * G
             r == ((x[1] * ScaleMod[Binade(x)] + x[2]) % M) \div HOUR
             low == r % G
             d == IF 2 * low < G THEN 0 - low
                  ELSE IF 2 * low > G THEN G - low
                  ELSE IF r >= G THEN G - low ELSE 0 - low
         IN <<x[1], x[2] + HOUR * d>>

\* x + y and x - y
FAdd(x, y) == FRound(<<x[1] + y[1], x[2] + y[2]>>)
FSub(x, y) == FRound(<<x[1] - y[1], x[2] - y[2]>>)

\* m / 60 for an int m: the double nearest to m/60
FDiv60(m) ==
    IF m = 0 THEN ZERO
    ELSE LET b == Binade(<<m, 0>>)
             g == Pow2(b + FINE_BITS)
             r60 == (m * Pow2Mod(FRACTION_BITS - b, HOUR)) % HOUR
         IN IF 2 * r60 < HOUR THEN <<m, 0 - g * r60>> ELSE <<m, g * (HOUR - r60)>>

\* int(x) for x >= 0
FInt(x) == IF x[2] >= 0 THEN x[1] \div HOUR ELSE (x[1] - 1) \div HOUR

\* int(frac * 60) for 0 <= frac <= 1: the product is the number
\* frac[1] + frac[2] / 2^58, rounded to a double and then truncated
MinuteOf(frac) ==
    IF frac[1] = 0 \/ frac[2] = 0 THEN frac[1]
    ELSE LET p == <<frac[1] * HOUR, frac[2] * HOUR>>
             G == Pow2(Binade(p) + FINE_BITS)
             low == frac[2] % G
             q == (frac[2] - low) \div G
             e == IF 2 * low < G THEN frac[2] - low
                  ELSE IF 2 * low > G THEN frac[2] - low + G
                  ELSE IF q % 2 = 0 THEN frac[2] - low ELSE frac[2] - low + G
         IN IF e >= 0 THEN frac[1] ELSE frac[1] - 1

\* ------------------------------------------------------------------------
\* Time model
\* ------------------------------------------------------------------------
\* time_to_hour("HH:MM") = int(HH) + int(MM)/60
time_to_hour(t) == FAdd(FromInt(t[1]), FDiv60(t[2]))

\* hour_to_time_str(hour): h = int(hour), m = int((hour - h) * 60)
hour_to_time_str(hour) ==
    LET h == FInt(hour)
    IN <<h, MinuteOf(FSub(hour, FromInt(h)))>>

\* overlaps(start1, end1, start2, end2)
overlaps(start1, end1, start2, end2) == FLt(FMax(start1, start2), FMin(end1, end2))

\* normalisation of an operation block: if end_hour <= start_hour: end_hour += 24
OpStart(op) == time_to_hour(op.start)
OpEnd(op) ==
    IF FLe(time_to_hour(op.end), time_to_hour(op.start))
    THEN FAdd(time_to_hour(op.end), FromInt(OVERNIGHT))
    ELSE time_to_hour(op.end)

\* one parsed entry "Day HH:MM-HH:MM" of the availability text
ParseWindow(e) ==
    LET sh == time_to_hour(e.start)
        eh == time_to_hour(e.end)
    IN [start |-> e.start, end |-> e.end, start_hour |-> sh,
        end_hour |-> IF FLt(eh, sh) THEN FAdd(eh, FromInt(OVERNIGHT)) ELSE eh]

RECURSIVE WindowsOf(_, _)
WindowsOf(entries, day) ==
    IF entries = <<>> THEN <<>>
    ELSE IF Head(entries).day = day
         THEN <<ParseWindow(Head(entries))>> \o WindowsOf(Tail(entries), day)
         ELSE WindowsOf(Tail(entries), day)

\* parse_availability: day -> list of windows, in the order of the text
parse_availability(entries) == [d \in DaySet |-> WindowsOf(entries, d)]

\* is_worker_available with an overlap test in place of the containment test
is_worker_available_overlap(worker, day, shift_start, shift_end) ==
    LET day_availability == worker.availability[day]
    IN \E i \in 1..Len(day_availability) :
          overlaps(day_availability[i].start_hour, day_availability[i].end_hour,
                   shift_start, shift_end)

\* is_worker_available(worker, day, shift_start, shift_end)
is_worker_available(worker, day, shift_start, shift_end) ==
    LET day_availability == worker.availability[day]
    IN \E i \in 1..Len(day_availability) :
          /\ FLe(day_availability[i].start_hour, shift_start)
          /\ FLe(shift_end, day_availability[i].end_hour)

\* ------------------------------------------------------------------------
\* Inputs
\* ------------------------------------------------------------------------
T(h, m) == <<h, m>>
Op(s, e) == [start |-> s, end |-> e]
Entry(d, s, e) == [day |-> d, start |-> s, end |-> e]

\* operation blocks Monday can be given
OpChoices ==
    { Op(T(10, 0), T(13, 0)),
      Op(T(10, 0), T(18, 0)),
      Op(T(6, 10), T(14, 10)),
      Op(T(12, 0), T(16, 0)),
      Op(T(22, 0), T(2, 0)) }

\* Tuesday is closed or open 09:00-14:00
TuesdayChoices == { <<>>, <<Op(T(9, 0), T(14, 0))>> }

EmailPool == <<"w1@x.edu", "w2@x.edu", "w3@x.edu", "w4@x.edu">>
NamePool == <<"Ann A", "Bob B", "Cy C", "Di D">>

\* roster rows the model draws from: the work-study flag and the availability text
RowChoices ==
    << [work_study |-> FALSE, text |-> <<Entry("Monday", T(6, 10), T(18, 0))>>],
       [work_study |-> TRUE, text |-> <<Entry("Monday", T(6, 10), T(18, 0))>>],
       [work_study |-> TRUE, text |-> <<Entry("Monday", T(10, 30), T(15, 30))>>],
       [work_study |-> FALSE, text |-> <<Entry("Monday", T(9, 0), T(12, 0)),
                                         Entry("Monday", T(12, 0), T(15, 0))>>],
       [work_study |-> TRUE, text |-> <<Entry("Tuesday", T(9, 0), T(13, 0))>>],
       [work_study |-> FALSE, text |-> <<Entry("Monday", T(22, 0), T(2, 0)),
                                         Entry("Tuesday", T(9, 0), T(13, 0))>>] >>

\* the record do_generate_schedule builds for one roster row
Worker(i, row) ==
    [name |-> NamePool[i], email |-> EmailPool[i], work_study |-> row.work_study,
     availability |-> parse_availability(row.text)]

\* rosters of 1..MaxWorkers rows; rosters that differ only in the order of their
\* rows are listed once
Rosters ==
    UNION { { [i \in 1..n |-> Worker(i, RowChoices[r[i]])] :
                r \in {f \in [1..n -> 1..Len(RowChoices)] :
                         \A i \in 1..(n - 1) : f[i] <= f[i + 1]} } :
            n \in 1..MaxWorkers }

\* first and last names of NamePool: NamePool[k] is f"{first} {last}"
FirstNamePool == <<"Ann", "Bob", "Cy", "Di">>
LastNamePool == <<"A", "B", "C", "D">>

\* the availability text of a parsed availability: its entries, day by day
RECURSIVE TextFrom(_, _)
TextFrom(availability, di) ==
    IF di > Len(DAYS) THEN <<>>
    ELSE [n \in 1..Len(availability[DAYS[di]]) |->
             Entry(DAYS[di], availability[DAYS[di]][n].start,
                   availability[DAYS[di]][n].end)]
         \o TextFrom(availability, di + 1)

\* the row of the Excel file a worker record was read from
RowOf(worker) ==
    LET k == CHOOSE k \in 1..Len(NamePool) : NamePool[k] = worker.name
    IN [first_name |-> FirstNamePool[k], last_name |-> LastNamePool[k],
        email |-> worker.email, work_study |-> worker.work_study,
        availability |-> TextFrom(worker.availability, 1)]

\* the Excel file do_generate_schedule read the roster from
FileOf(ws) == [i \in 1..Len(ws) |-> RowOf(ws[i])]

\* open time of a week in minutes, summed over its blocks
RECURSIVE OpenTime(_)
OpenTime(ops) ==
    IF ops = <<>> THEN 0
    ELSE OpEnd(Head(ops))[1] - OpStart(Head(ops))[1] + OpenTime(Tail(ops))

\* hours of operation: Monday has up to MaxOps distinct blocks, Tuesday is closed
\* or open, some day is open, and the week is open for at most MaxWeekHours
HoursChoices ==
    { h \in [DaySet -> SeqsUpTo(OpChoices, MaxOps) \cup TuesdayChoices] :
        /\ h["Tuesday"] \in TuesdayChoices
        /\ h["Monday"] \in SeqsUpTo(OpChoices, MaxOps)
        /\ \A a, b \in 1..Len(h["Monday"]) : a # b => h["Monday"][a] # h["Monday"][b]
        /\ \E d \in DaySet : h[d] # <<>>
        /\ OpenTime(h["Monday"]) + OpenTime(h["Tuesday"]) <= MaxWeekHours * HOUR }

VARIABLES
    hours_of_operation,     \* day -> list of operation blocks
    workers,                \* the roster, a list of worker records
    max_hours_per_worker,
    max_workers_per_shift,
    schedule,               \* day -> list of shifts, for the days present
    unfilled_shifts,
    assigned_hours,         \* email -> assigned hours
    assigned_days,          \* email -> set of days
    pc,                     \* position in create_shifts_from_availability
    work_study_workers,     \* work-study workers the pre-pass still visits
    days_list,              \* days the coverage pass still visits
    day,                    \* the day being covered
    random_operation_hours, \* blocks of the day still to cover
    time_slots_to_fill,     \* slots of the block still to cover
    slot_start, slot_end,
    possible_lengths,
    current_hour,
    low_hour_workers,
    unassigned_workers,
    work_study_issues,
    alternative_solutions,
    seed,                   \* the clock reading the run seeded the generator with
    previous,               \* what the previous run returned, <<>> before it
    saved_schedule,         \* the saved schedule file, <<>> when there is none
    viewed,                 \* what view_current_schedule loaded, <<>> before it
    edits,                  \* manual reassignments saved in the schedule dialog
    hours_table,            \* email -> status shown in the Worker Hours tab, <<>>
                            \* before update_worker_hours_tab has run
    roster                  \* the rows of the workplace's Excel file

inputs == <<hours_of_operation, workers, max_hours_per_worker, max_workers_per_shift>>
results == <<low_hour_workers, unassigned_workers, work_study_issues, alternative_solutions>>
book == <<schedule, unfilled_shifts, assigned_hours, assigned_days>>
slotvars == <<slot_start, slot_end, possible_lengths, current_hour>>
office == <<edits, hours_table, roster>>
session == <<seed, previous, saved_schedule, viewed, office>>
vars == <<inputs, results, book, slotvars, pc, work_study_workers, days_list,
          day, random_operation_hours, time_slots_to_fill, session>>

WorkerIdx == 1..Len(workers)

\* inputs drawn within the bounds of the model
BoundedInputs ==
    /\ hours_of_operation \in HoursChoices
    /\ workers \in Rosters
    /\ max_hours_per_worker \in 1..MaxHoursBound
    /\ max_workers_per_shift \in 1..MaxPerShiftBound

\* the long day: Monday open 10:00-22:00 only, one regular worker available
\* Monday 10:00-18:00, at most 20 hours per worker and 1 worker per shift
LongDayInputs ==
    /\ hours_of_operation =
          [d \in DaySet |-> IF d = "Monday" THEN <<Op(T(10, 0), T(22, 0))>> ELSE <<>>]
    /\ workers = <<Worker(1, [work_study |-> FALSE,
                              text |-> <<Entry("Monday", T(10, 0), T(18, 0))>>])>>
    /\ max_hours_per_worker = 20
    /\ max_workers_per_shift = 1

\* the early-morning inputs: Monday open 04:20-06:20 and 05:20-08:20, two blocks
\* that overlap, one regular worker available Monday 04:00-09:00, at most
\* MaxHoursBound hours per worker and 1 worker per shift
EarlyInputs ==
    /\ hours_of_operation =
          [d \in DaySet |-> IF d = "Monday"
                            THEN <<Op(T(4, 20), T(6, 20)), Op(T(5, 20), T(8, 20))>>
                            ELSE <<>>]
    /\ workers = <<Worker(1, [work_study |-> FALSE,
                              text |-> <<Entry("Monday", T(4, 0), T(9, 0))>>])>>
    /\ max_hours_per_worker = MaxHoursBound
    /\ max_workers_per_shift = 1

\* the all-day inputs: Monday open 00:00-00:00 (round the clock), one
\* work-study worker whose availability text reads Monday 00:00-00:00
AllDayInputs ==
    /\ hours_of_operation =
          [d \in DaySet |-> IF d = "Monday" THEN <<Op(T(0, 0), T(0, 0))>> ELSE <<>>]
    /\ workers = <<Worker(1, [work_study |-> TRUE,
                              text |-> <<Entry("Monday", T(0, 0), T(0, 0))>>])>>
    /\ max_hours_per_worker = MaxHoursBound
    /\ max_workers_per_shift = 1

\* inputs of a call whose max_hours_per_worker or max_workers_per_shift is not
\* positive (the other limit is at its bound)
UncheckedInputs ==
    /\ hours_of_operation \in HoursChoices
    /\ workers \in Rosters
    /\ \/ /\ max_hours_per_worker \in (0 - MaxBelow)..0
          /\ max_workers_per_shift = MaxPerShiftBound
       \/ /\ max_hours_per_worker = MaxHoursBound
          /\ max_workers_per_shift \in (0 - MaxBelow)..0

\* the state at the entry of create_shifts_from_availability
InitRun ==
    /\ schedule = <<>>
    /\ unfilled_shifts = <<>>
    /\ assigned_hours = [e \in {workers[i].email : i \in 1..Len(workers)} |-> ZERO]
    /\ assigned_days = [e \in {workers[i].email : i \in 1..Len(workers)} |-> {}]
    /\ pc = "prepass"
    /\ work_study_workers = {i \in 1..Len(workers) : workers[i].work_study}
    /\ days_list = {}
    /\ day = "none"
    /\ random_operation_hours = {}
    /\ time_slots_to_fill = <<>>
    /\ slot_start = ZERO
    /\ slot_end = ZERO
    /\ possible_lengths = {}
    /\ current_hour = ZERO
    /\ low_hour_workers = <<>>
    /\ unassigned_workers = <<>>
    /\ work_study_issues = <<>>
    /\ alternative_solutions = <<>>
    /\ seed = 1
    /\ previous = <<>>
    /\ saved_schedule = <<>>
    /\ viewed = <<>>
    /\ edits = 0
    /\ hours_table = <<>>
    /\ roster = FileOf(workers)

Init ==
    /\ BoundedInputs \/ LongDayInputs \/ EarlyInputs
    /\ InitRun

\* ------------------------------------------------------------------------
\* Work-study pre-pass (one iteration of "for worker in work_study_workers")
\* ------------------------------------------------------------------------
\* dict entry schedule[d], created empty when absent
WithDay(sch, d) ==
    [x \in (DOMAIN sch) \cup {d} |-> IF x \in DOMAIN sch THEN sch[x] ELSE <<>>]

AppendShift(sch, d, shift) ==
    [x \in (DOMAIN sch) \cup {d} |->
        IF x = d THEN Append(WithDay(sch, d)[d], shift) ELSE sch[x]]

\* possible_starts = [start_hour + i for i in range(int(end_hour - start_hour - 5) + 1)]
possible_starts(op) ==
    {FAdd(OpStart(op), FromInt(i)) :
        i \in 0..FInt(FSub(FSub(OpEnd(op), OpStart(op)), FromInt(WORK_STUDY_HOURS)))}

\* the starts of a block at which the worker can take a 5-hour shift
FiveHourStarts(worker, d, op) ==
    IF FLe(FromInt(WORK_STUDY_HOURS), FSub(OpEnd(op), OpStart(op)))
    THEN {s \in possible_starts(op) :
            is_worker_available(worker, d, s, FAdd(s, FromInt(WORK_STUDY_HOURS)))}
    ELSE {}

\* blocks in the order the pre-pass scans them: days in dict order, blocks in list order
RECURSIVE ScanFrom(_, _)
ScanFrom(di, k) ==
    IF di > Len(DAYS) THEN <<>>
    ELSE IF k > Len(hours_of_operation[DAYS[di]]) THEN ScanFrom(di + 1, 1)
    ELSE <<[day |-> DAYS[di], op |-> hours_of_operation[DAYS[di]][k]]>> \o ScanFrom(di, k + 1)

ScanOrder == ScanFrom(1, 1)

\* the dedicated shift of the pre-pass
WorkStudyShift(worker, s) ==
    [start |-> hour_to_time_str(s),
     end |-> hour_to_time_str(FAdd(s, FromInt(WORK_STUDY_HOURS))),
     assigned |-> <<worker.name>>,
     available |-> <<worker.name>>,
     raw_assigned |-> <<worker.email>>,
     all_available |-> <<worker.email>>,
     is_work_study |-> TRUE]

AssignWorkStudy(i) ==
    LET worker == workers[i]
        email == worker.email
        scan == ScanOrder
        hits == {n \in 1..Len(scan) : FiveHourStarts(worker, scan[n].day, scan[n].op) # {}}
    IN /\ pc = "prepass"
       /\ i \in work_study_workers
       /\ work_study_workers' = work_study_workers \ {i}
       /\ IF FLe(FromInt(WORK_STUDY_HOURS), assigned_hours[email]) \/ hits = {}
          THEN UNCHANGED book
          ELSE LET first == scan[MinOf(hits)]
               IN \E s \in FiveHourStarts(worker, first.day, first.op) :
                     /\ schedule' = AppendShift(schedule, first.day, WorkStudyShift(worker, s))
                     /\ assigned_hours' = [assigned_hours EXCEPT ![email] = FromInt(WORK_STUDY_HOURS)]
                     /\ assigned_days' = [assigned_days EXCEPT ![email] = @ \cup {first.day}]
                     /\ UNCHANGED unfilled_shifts
       /\ UNCHANGED <<session, inputs, results, slotvars, days_list, day,
                      random_operation_hours, time_slots_to_fill>>
       /\ UNCHANGED pc

\* days_list = list(hours_of_operation.keys()); random.shuffle(days_list)
BeginCoverage ==
    /\ pc = "prepass"
    /\ work_study_workers = {}
    /\ pc' = "days"
    /\ days_list' = DOMAIN hours_of_operation
    /\ UNCHANGED <<session, inputs, results, book, slotvars, work_study_workers, day,
                   random_operation_hours, time_slots_to_fill>>

\* ------------------------------------------------------------------------
\* Coverage pass
\* ------------------------------------------------------------------------
\* for day in days_list: the next day of the shuffled list
NextDay(d) ==
    /\ pc = "days"
    /\ d \in days_list
    /\ days_list' = days_list \ {d}
    /\ day' = d
    /\ IF hours_of_operation[d] = <<>>
       THEN UNCHANGED <<schedule, random_operation_hours, pc>>
       ELSE /\ schedule' = WithDay(schedule, d)
            /\ random_operation_hours' = 1..Len(hours_of_operation[d])
            /\ pc' = "blocks"
    /\ UNCHANGED <<session, inputs, results, unfilled_shifts, assigned_hours, assigned_days,
                   slotvars, work_study_workers, time_slots_to_fill>>

\* the day loop is exhausted
EndDays ==
    /\ pc = "days"
    /\ days_list = {}
    /\ pc' = "diagnostics"
    /\ UNCHANGED <<session, inputs, results, book, slotvars, work_study_workers, days_list,
                   day, random_operation_hours, time_slots_to_fill>>

\* one existing shift removed from the list of slots
RECURSIVE SubtractShift(_, _, _)
SubtractShift(slots, shift_start, shift_end) ==
    IF slots = <<>> THEN <<>>
    ELSE LET ss == Head(slots)[1]
             se == Head(slots)[2]
             rest == SubtractShift(Tail(slots), shift_start, shift_end)
         IN IF FLe(se, shift_start) \/ FLe(shift_end, ss)
            THEN <<Head(slots)>> \o rest
            ELSE (IF FLt(ss, shift_start) THEN <<(<<ss, shift_start>>)>> ELSE <<>>)
                 \o (IF FLt(shift_end, se) THEN <<(<<shift_end, se>>)>> ELSE <<>>)
                 \o rest

\* existing_shifts: the shifts of the day that overlap the block
ExistingShifts(d, start_hour, end_hour) ==
    SelectSeq(schedule[d],
              LAMBDA s : overlaps(time_to_hour(s.start), time_to_hour(s.end),
                                  start_hour, end_hour))

RECURSIVE SubtractAll(_, _)
SubtractAll(slots, shifts) ==
    IF shifts = <<>> THEN slots
    ELSE SubtractAll(SubtractShift(slots, time_to_hour(Head(shifts).start),
                                   time_to_hour(Head(shifts).end)),
                     Tail(shifts))

\* time_slots_to_fill for a block of the day
SlotsToFill(d, op) ==
    SubtractAll(<<(<<OpStart(op), OpEnd(op)>>)>>, ExistingShifts(d, OpStart(op), OpEnd(op)))

\* for op in random_operation_hours: the next block of the shuffled list
NextBlock(k) ==
    /\ pc = "blocks"
    /\ k \in random_operation_hours
    /\ random_operation_hours' = random_operation_hours \ {k}
    /\ time_slots_to_fill' = SlotsToFill(day, hours_of_operation[day][k])
    /\ pc' = "slots"
    /\ UNCHANGED <<session, inputs, results, book, slotvars, work_study_workers, days_list, day>>

EndBlocks ==
    /\ pc = "blocks"
    /\ random_operation_hours = {}
    /\ pc' = "days"
    /\ UNCHANGED <<session, inputs, results, book, slotvars, work_study_workers, days_list,
                   day, random_operation_hours, time_slots_to_fill>>

\* for slot_start, slot_end in time_slots_to_fill: up to the while loop
NextSlot ==
    /\ pc = "slots"
    /\ time_slots_to_fill # <<>>
    /\ time_slots_to_fill' = Tail(time_slots_to_fill)
    /\ LET ss == Head(time_slots_to_fill)[1]
           se == Head(time_slots_to_fill)[2]
           slot_duration == FSub(se, ss)
           fitting == {l \in shift_lengths : FLe(FromInt(l), slot_duration)}
       IN /\ slot_start' = ss
          /\ slot_end' = se
          /\ IF FLt(slot_duration, FromInt(MIN_SLOT_HOURS))
             THEN UNCHANGED <<possible_lengths, current_hour, pc>>
             ELSE /\ possible_lengths' = IF fitting = {} THEN {2} ELSE fitting
                  /\ current_hour' = ss
                  /\ pc' = "peel"
    /\ UNCHANGED <<session, inputs, results, book, work_study_workers, days_list, day,
                   random_operation_hours>>

EndSlots ==
    /\ pc = "slots"
    /\ time_slots_to_fill = <<>>
    /\ pc' = "blocks"
    /\ UNCHANGED <<session, inputs, results, book, slotvars, work_study_workers, days_list,
                   day, random_operation_hours, time_slots_to_fill>>

\* ------------------------------------------------------------------------
\* One iteration of "while current_hour < slot_end"
\* ------------------------------------------------------------------------
\* the scan without the test that the length fits
LengthChoices_any(lengths, cur, send) == lengths

\* the lengths the shuffled scan of possible_lengths can settle on
LengthChoices(lengths, cur, send) ==
    LET fits == {l \in lengths : FLe(FAdd(cur, FromInt(l)), send)}
    IN IF fits # {} THEN fits ELSE {MinOf(lengths)}

\* shift_end_hour that stays at the cursor
ShiftEndHour_stuck(cur, shift_length, send) == cur

\* shift_end_hour without the cap at slot_end
ShiftEndHour_uncapped(cur, shift_length, send) == FAdd(cur, FromInt(shift_length))

\* shift_end_hour = min(current_hour + shift_length, slot_end)
ShiftEndHour(cur, shift_length, send) == FMin(FAdd(cur, FromInt(shift_length)), send)

\* the filters without the 5-hours-only rule for work-study workers at 0 hours
Eligible_any_length(worker, hours, d, shift_start, shift_end) ==
    /\ ~(worker.work_study /\ FLe(FromInt(WORK_STUDY_HOURS), hours[worker.email]))
    /\ is_worker_available(worker, d, shift_start, shift_end)
    /\ FLe(FAdd(hours[worker.email], FSub(shift_end, shift_start)),
           FromInt(max_hours_per_worker))

\* the filters that put a worker in available_workers
Eligible(worker, hours, d, shift_start, shift_end) ==
    /\ ~(worker.work_study /\ FLe(FromInt(WORK_STUDY_HOURS), hours[worker.email]))
    /\ ~(/\ worker.work_study
         /\ hours[worker.email] = ZERO
         /\ FSub(shift_end, shift_start) # FromInt(WORK_STUDY_HOURS))
    /\ is_worker_available(worker, d, shift_start, shift_end)
    /\ FLe(FAdd(hours[worker.email], FSub(shift_end, shift_start)),
           FromInt(max_hours_per_worker))

\* the eligible workers in any order, the sort left out
SortedOrders_unsorted(E, hours) ==
    {o \in [1..Cardinality(E) -> E] :
        \A a, b \in 1..Cardinality(E) : a # b => o[a] # o[b]}

\* available_workers.sort(key=(assigned_hours, random.random())): every order of
\* the eligible workers that is ascending in assigned hours
SortedOrders(E, hours) ==
    {o \in [1..Cardinality(E) -> E] :
        /\ \A a, b \in 1..Cardinality(E) : a # b => o[a] # o[b]
        /\ \A a, b \in 1..Cardinality(E) :
              a < b => FLe(hours[workers[o[a]].email], hours[workers[o[b]].email])}

\* the slice taken one place too far
Selected_one_more(order) == SubSeq(order, 1, Min2(max_workers_per_shift + 1, Len(order)))

\* available_workers[:max_workers_per_shift]; a negative stop counts from the end
Selected(order) ==
    IF max_workers_per_shift >= 0
    THEN SubSeq(order, 1, Min2(max_workers_per_shift, Len(order)))
    ELSE IF Len(order) + max_workers_per_shift >= 1
         THEN SubSeq(order, 1, Len(order) + max_workers_per_shift)
         ELSE <<>>

Names(order) == [n \in 1..Len(order) |-> workers[order[n]].name]
EmailsOf(order) == [n \in 1..Len(order) |-> workers[order[n]].email]

\* the shift record without the "Unfilled" sentinel
RegularShift_no_sentinel(cur, send, order, assigned) ==
    [start |-> hour_to_time_str(cur),
     end |-> hour_to_time_str(send),
     assigned |-> Names(assigned),
     available |-> Names(order),
     raw_assigned |-> EmailsOf(assigned),
     all_available |-> EmailsOf(order),
     is_work_study |-> FALSE]

\* the shift record of the coverage pass
RegularShift(cur, send, order, assigned) ==
    [start |-> hour_to_time_str(cur),
     end |-> hour_to_time_str(send),
     assigned |-> IF assigned # <<>> THEN Names(assigned) ELSE <<"Unfilled">>,
     available |-> Names(order),
     raw_assigned |-> EmailsOf(assigned),
     all_available |-> EmailsOf(order),
     is_work_study |-> FALSE]

UnfilledEntry(d, cur, send) ==
    [day |-> d, start |-> hour_to_time_str(cur), end |-> hour_to_time_str(send),
     start_hour |-> cur, end_hour |-> send]

CreateShift ==
    /\ pc = "peel"
    /\ FLt(current_hour, slot_end)
    /\ \E shift_length \in LengthChoices(possible_lengths, current_hour, slot_end) :
         LET shift_end_hour == ShiftEndHour(current_hour, shift_length, slot_end)
             E == {i \in WorkerIdx :
                     Eligible(workers[i], assigned_hours, day, current_hour, shift_end_hour)}
         IN \E order \in SortedOrders(E, assigned_hours) :
              LET assigned == Selected(order)
                  got == {workers[assigned[n]].email : n \in 1..Len(assigned)}
              IN /\ assigned_hours' =
                        [e \in DOMAIN assigned_hours |->
                            IF e \in got
                            THEN FAdd(assigned_hours[e], FSub(shift_end_hour, current_hour))
                            ELSE assigned_hours[e]]
                 /\ assigned_days' =
                        [e \in DOMAIN assigned_days |->
                            IF e \in got THEN assigned_days[e] \cup {day}
                            ELSE assigned_days[e]]
                 /\ unfilled_shifts' =
                        IF assigned = <<>>
                        THEN Append(unfilled_shifts,
                                    UnfilledEntry(day, current_hour, shift_end_hour))
                        ELSE unfilled_shifts
                 /\ schedule' = AppendShift(schedule, day,
                                    RegularShift(current_hour, shift_end_hour, order, assigned))
                 /\ current_hour' = shift_end_hour
                 /\ pc' = IF FLt(shift_end_hour, slot_end) THEN "peel" ELSE "slots"
    /\ UNCHANGED <<session, inputs, results, slot_start, slot_end, possible_lengths,
                   work_study_workers, days_list, day, random_operation_hours,
                   time_slots_to_fill>>

\* ------------------------------------------------------------------------
\* Diagnostics
\* ------------------------------------------------------------------------
\* assigned_hours.get(email, 0)
Get(f, k) == IF k \in DOMAIN f THEN f[k] ELSE ZERO

\* alternatives.sort(key=assigned hours): stable insertion of worker x into a
\* list of workers sorted by key
RECURSIVE InsertStable(_, _, _)
InsertStable(x, sorted, key) ==
    IF sorted = <<>> THEN <<x>>
    ELSE IF FLe(key[Head(sorted)], key[x])
         THEN <<Head(sorted)>> \o InsertStable(x, Tail(sorted), key)
         ELSE <<x>> \o sorted

RECURSIVE SortStable(_, _)
SortStable(list, key) ==
    IF list = <<>> THEN <<>>
    ELSE InsertStable(list[Len(list)], SortStable(SubSeq(list, 1, Len(list) - 1), key), key)

\* x * 1.5, exact for the whole and half hours it is applied to
OneAndHalf(x) == <<(3 * x[1]) \div 2, (3 * x[2]) \div 2>>

\* find_alternative_workers
find_alternative_workers(ws, d, shift_start, shift_end, hours, max_hours, already_assigned) ==
    LET ok(i) ==
            /\ ws[i].email \notin already_assigned
            /\ is_worker_available(ws[i], d, shift_start, shift_end)
            /\ FLe(FAdd(Get(hours, ws[i].email), FSub(shift_end, shift_start)),
                   OneAndHalf(max_hours))
        alternatives == SelectSeq([i \in 1..Len(ws) |-> i], ok)
        key == [i \in 1..Len(ws) |-> Get(hours, ws[i].email)]
    IN SortStable(alternatives, key)

\* alternative_solutions after the unfilled shifts us[1..n]
RECURSIVE Alternatives(_, _)
Alternatives(us, n) ==
    IF n = 0 THEN <<>>
    ELSE LET prev == Alternatives(us, n - 1)
             shift == us[n]
             alts == find_alternative_workers(workers, shift.day, shift.start_hour,
                        shift.end_hour, <<>>,
                        OneAndHalf(FromInt(max_hours_per_worker)), {})
             k == <<shift.day, shift.start, shift.end>>
         IN IF alts = <<>> THEN prev
            ELSE [x \in (DOMAIN prev) \cup {k} |-> IF x = k THEN Names(alts) ELSE prev[x]]

LowHourWorkers(hours) ==
    Names(SelectSeq([i \in WorkerIdx |-> i],
                    LAMBDA i : /\ ~workers[i].work_study
                               /\ FLt(hours[workers[i].email], FromInt(LOW_HOURS))))

\* unassigned_workers that looks at the regular workers only
UnassignedWorkers_regular_only(hours) ==
    Names(SelectSeq([i \in WorkerIdx |-> i],
                    LAMBDA i : ~workers[i].work_study /\ hours[workers[i].email] = ZERO))

UnassignedWorkers(hours) ==
    Names(SelectSeq([i \in WorkerIdx |-> i], LAMBDA i : hours[workers[i].email] = ZERO))

\* work_study_issues that reports only the workers above the quota
WorkStudyIssues_over_only(hours) ==
    LET bad == SelectSeq([i \in WorkerIdx |-> i],
                         LAMBDA i : /\ workers[i].work_study
                                    /\ FLt(FromInt(WORK_STUDY_HOURS), hours[workers[i].email]))
    IN [n \in 1..Len(bad) |-> <<workers[bad[n]].name, hours[workers[bad[n]].email]>>]

WorkStudyIssues(hours) ==
    LET bad == SelectSeq([i \in WorkerIdx |-> i],
                         LAMBDA i : /\ workers[i].work_study
                                    /\ hours[workers[i].email] # FromInt(WORK_STUDY_HOURS))
    IN [n \in 1..Len(bad) |-> <<workers[bad[n]].name, hours[workers[bad[n]].email]>>]

Diagnostics ==
    /\ pc = "diagnostics"
    /\ low_hour_workers' = LowHourWorkers(assigned_hours)
    /\ unassigned_workers' = UnassignedWorkers(assigned_hours)
    /\ work_study_issues' = WorkStudyIssues(assigned_hours)
    /\ alternative_solutions' = Alternatives(unfilled_shifts, Len(unfilled_shifts))
    /\ pc' = "done"
    /\ UNCHANGED <<session, inputs, book, slotvars, work_study_workers, days_list, day,
                   random_operation_hours, time_slots_to_fill>>

\* ------------------------------------------------------------------------
\* Hours recomputed from a schedule
\* ------------------------------------------------------------------------
\* for email in shift.get('raw_assigned', []): the hours of the shift added to
\* acc for every entry that is the worker
RECURSIVE AddShiftHours(_, _, _, _)
AddShiftHours(emails, email, shift_hours, acc) ==
    IF emails = <<>> THEN acc
    ELSE AddShiftHours(Tail(emails), email, shift_hours,
                       IF Head(emails) = email THEN FAdd(acc, shift_hours) ELSE acc)

\* for shift in shifts: shift_hours = time_to_hour(end) - time_to_hour(start)
RECURSIVE HoursOfShifts(_, _, _)
HoursOfShifts(shifts, email, acc) ==
    IF shifts = <<>> THEN acc
    ELSE LET shift == Head(shifts)
             shift_hours == FSub(time_to_hour(shift.end), time_to_hour(shift.start))
         IN HoursOfShifts(Tail(shifts), email,
                          AddShiftHours(shift.raw_assigned, email, shift_hours, acc))

\* for day, shifts in schedule.items(), from DAYS[di] on
RECURSIVE HoursOfDays(_, _, _, _)
HoursOfDays(sch, di, email, acc) ==
    IF di > Len(DAYS) THEN acc
    ELSE HoursOfDays(sch, di + 1, email,
                     IF DAYS[di] \in DOMAIN sch
                     THEN HoursOfShifts(sch[DAYS[di]], email, acc) ELSE acc)

\* update_worker_hours_tab: assigned hours recalculated from the schedule
RecalculatedHours(sch) ==
    [e \in {workers[i].email : i \in WorkerIdx} |-> HoursOfDays(sch, 1, e, ZERO)]

\* ------------------------------------------------------------------------
\* Saving and viewing the schedule
\* ------------------------------------------------------------------------
\* json.dump / json.load of one shift: strings and lists of strings, kept as
\* they are and in their order
JsonShift(shift) ==
    [start |-> shift.start, end |-> shift.end, assigned |-> shift.assigned,
     available |-> shift.available, raw_assigned |-> shift.raw_assigned,
     all_available |-> shift.all_available, is_work_study |-> shift.is_work_study]

\* the file save_schedule writes: an object with one array of shifts per day
JsonSchedule(sch) ==
    [d \in DOMAIN sch |-> [n \in 1..Len(sch[d]) |-> JsonShift(sch[d][n])]]

\* save_schedule(dialog, schedule), from the dialog of the generated schedule
SaveSchedule ==
    /\ pc = "done"
    /\ saved_schedule # <<JsonSchedule(schedule)>>
    /\ saved_schedule' = <<JsonSchedule(schedule)>>
    /\ UNCHANGED <<inputs, results, book, slotvars, pc, work_study_workers, days_list,
                   day, random_operation_hours, time_slots_to_fill, seed, previous,
                   viewed, office>>

\* assigned_hours of view_current_schedule: computed from the strings of the
\* loaded shifts; assigned_hours.get(email, 0) for a worker on no shift
ViewAssignedHours(sch) ==
    [e \in {workers[i].email : i \in WorkerIdx} |-> HoursOfDays(sch, 1, e, ZERO)]

\* unassigned_workers of view_current_schedule
ViewUnassignedWorkers(hours) ==
    Names(SelectSeq([i \in WorkerIdx |-> i], LAMBDA i : hours[workers[i].email] = ZERO))

\* low_hour_workers of view_current_schedule: hours > 0 and hours < 4
ViewLowHourWorkers(hours) ==
    Names(SelectSeq([i \in WorkerIdx |-> i],
                    LAMBDA i : /\ FLt(ZERO, hours[workers[i].email])
                               /\ FLt(hours[workers[i].email], FromInt(LOW_HOURS))))

\* view_current_schedule: what it passes to show_schedule_dialog
ViewCurrentSchedule ==
    /\ pc = "done"
    /\ saved_schedule # <<>>
    /\ LET loaded == JsonSchedule(saved_schedule[1])
           hours == ViewAssignedHours(loaded)
       IN /\ viewed # <<[schedule |-> loaded, assigned_hours |-> hours,
                         low_hour_workers |-> ViewLowHourWorkers(hours),
                         unassigned_workers |-> ViewUnassignedWorkers(hours)]>>
          /\ viewed' = <<[schedule |-> loaded, assigned_hours |-> hours,
                          low_hour_workers |-> ViewLowHourWorkers(hours),
                          unassigned_workers |-> ViewUnassignedWorkers(hours)]>>
    /\ UNCHANGED <<inputs, results, book, slotvars, pc, work_study_workers, days_list,
                   day, random_operation_hours, time_slots_to_fill, seed, previous,
                   saved_schedule, office>>

\* ------------------------------------------------------------------------
\* Manual reassignment in the dialog of the generated schedule
\* ------------------------------------------------------------------------
\* the workers edit_shift_assignment lists for a shift: its all_available, or
\* the whole roster when that list is empty
Offered(shift) ==
    IF shift.all_available # <<>> THEN shift.all_available
    ELSE EmailsOf([i \in WorkerIdx |-> i])

\* f"{first_name} {last_name}" of the listed worker with this email
NameOfEmail(email) ==
    workers[CHOOSE i \in WorkerIdx : workers[i].email = email].name

\* the Status column update_worker_hours_tab writes for each worker
HoursStatus(hours) ==
    [e \in DOMAIN hours |->
        IF hours[e] = ZERO THEN "Unassigned"
        ELSE IF FLt(hours[e], FromInt(LOW_HOURS)) THEN "Low Hours"
        ELSE "OK"]

\* update_shift_assignment for shift n of day d, with the listed workers of
\* the set checked ticked: the shift takes them in the order of the list, and
\* update_worker_hours_tab recalculates the hours and the statuses
update_shift_assignment(d, n, checked) ==
    LET shift == schedule[d][n]
        selected_workers == SelectSeq(Offered(shift), LAMBDA e : e \in checked)
        edited == [schedule EXCEPT ![d][n] =
                     [shift EXCEPT
                        !.assigned =
                            IF selected_workers # <<>>
                            THEN [k \in 1..Len(selected_workers) |->
                                     NameOfEmail(selected_workers[k])]
                            ELSE <<"Unfilled">>,
                        !.raw_assigned = selected_workers]]
        hours == RecalculatedHours(edited)
    IN /\ schedule' = edited
       /\ assigned_hours' = hours
       /\ hours_table' = HoursStatus(hours)
       /\ edits' = edits + 1
       /\ UNCHANGED <<inputs, results, unfilled_shifts, assigned_days, slotvars, pc,
                      work_study_workers, days_list, day, random_operation_hours,
                      time_slots_to_fill, seed, previous, saved_schedule, viewed,
                      roster>>

\* Edit, tick or untick, Save on one shift of the dialog
EditShift ==
    /\ pc = "done"
    /\ edits < MaxEdits
    /\ workers # <<>>
    /\ \E d \in DOMAIN schedule : \E n \in 1..Len(schedule[d]) :
          \E checked \in SUBSET Range(Offered(schedule[d][n])) :
             update_shift_assignment(d, n, checked)

\* ------------------------------------------------------------------------
\* The roster file of the workplace
\* ------------------------------------------------------------------------
\* Email cells of the model; "" is the empty cell, which pandas reads as NaN
RosterEmails == {"", " ", "w1@x.edu", "w2@x.edu", "Nancy@x.edu"}

\* the characters of an Email cell
Chars(email) ==
    CASE email = "" -> <<>>
      [] email = " " -> <<" ">>
      [] email = "w1@x.edu" -> <<"w", "1", "@", "x", ".", "e", "d", "u">>
      [] email = "w2@x.edu" -> <<"w", "2", "@", "x", ".", "e", "d", "u">>
      [] email = "Nancy@x.edu" ->
            <<"N", "a", "n", "c", "y", "@", "x", ".", "e", "d", "u">>

\* str.strip(): the characters without the blanks at both ends
RECURSIVE LStrip(_)
LStrip(chars) ==
    IF chars # <<>> /\ Head(chars) = " " THEN LStrip(Tail(chars)) ELSE chars

RECURSIVE RStrip(_)
RStrip(chars) ==
    IF chars # <<>> /\ chars[Len(chars)] = " "
    THEN RStrip(SubSeq(chars, 1, Len(chars) - 1)) ELSE chars

Strip(chars) == RStrip(LStrip(chars))

\* the Email cell with these characters
CellOf(chars) == CHOOSE email \in RosterEmails : Chars(email) = chars

\* one character in lower case (case=False)
Lower(c) == IF c = "N" THEN "n" ELSE c

\* str.contains('nan', case=False)
ContainsNan(chars) ==
    \E k \in 1..(Len(chars) - 2) :
       /\ Lower(chars[k]) = "n"
       /\ Lower(chars[k + 1]) = "a"
       /\ Lower(chars[k + 2]) = "n"

\* df.dropna(subset=['Email']); df[df['Email'].str.strip() != ''];
\* df[~df['Email'].str.contains('nan', case=False, na=False)]
clean_excel_file(rows) ==
    SelectSeq(rows, LAMBDA row : /\ row.email # ""
                                 /\ Strip(Chars(row.email)) # <<>>
                                 /\ ~ContainsNan(Chars(row.email)))

\* availability texts a row can hold
TextChoices == {RowChoices[1].text, RowChoices[5].text}

\* first and last name typed into a dialog: a name of the pool, or one of
\* the two fields left empty
NameInputs ==
    {<<FirstNamePool[k], LastNamePool[k]>> : k \in 1..MaxWorkers}
        \cup {<<"", LastNamePool[1]>>, <<FirstNamePool[1], "">>}

\* rows of an Excel file
RosterRows ==
    [first_name : {FirstNamePool[k] : k \in 1..MaxWorkers},
     last_name : {LastNamePool[k] : k \in 1..MaxWorkers},
     email : RosterEmails, work_study : BOOLEAN, availability : TextChoices]

\* Excel files a user can upload: up to MaxRows rows of a worker each, with
\* distinct Email cells
Uploads ==
    {file \in SeqsUpTo({row \in RosterRows :
                           \E k \in 1..MaxWorkers : /\ row.first_name = FirstNamePool[k]
                                                    /\ row.last_name = LastNamePool[k]},
                       MaxRows) :
        \A a, b \in 1..Len(file) : a # b => file[a].email # file[b].email}

\* upload_excel: the chosen file is copied over the workplace's file and
\* clean_excel_file rewrites it
upload_excel(file) ==
    /\ pc = "idle"
    /\ roster' = clean_excel_file(file)
    /\ UNCHANGED <<inputs, results, book, slotvars, pc, work_study_workers, days_list,
                   day, random_operation_hours, time_slots_to_fill, seed, previous,
                   saved_schedule, viewed, edits, hours_table>>

\* save_worker(dialog, table, first_name, last_name, email, work_study, availability)
save_worker(first_name, last_name, email, work_study, availability) ==
    /\ pc = "idle"
    /\ IF first_name = "" \/ last_name = "" \/ email = ""
       THEN UNCHANGED roster
       ELSE LET df == clean_excel_file(roster)
            IN IF \E k \in 1..Len(df) : df[k].email = email
               THEN UNCHANGED roster
               ELSE /\ Len(df) < MaxRows
                    /\ roster' = Append(df, [first_name |-> first_name,
                                             last_name |-> last_name, email |-> email,
                                             work_study |-> work_study,
                                             availability |-> availability])
    /\ UNCHANGED <<inputs, results, book, slotvars, pc, work_study_workers, days_list,
                   day, random_operation_hours, time_slots_to_fill, seed, previous,
                   saved_schedule, viewed, edits, hours_table>>

\* update_worker(dialog, table, email, first_name, last_name, work_study, availability)
update_worker(email, first_name, last_name, work_study, availability) ==
    /\ pc = "idle"
    /\ IF first_name = "" \/ last_name = ""
       THEN UNCHANGED roster
       ELSE IF ~\E k \in 1..Len(roster) : roster[k].email = email
            THEN UNCHANGED roster
            ELSE roster' = [k \in 1..Len(roster) |->
                              IF roster[k].email = email
                              THEN [first_name |-> first_name, last_name |-> last_name,
                                    email |-> roster[k].email,
                                    work_study |-> work_study,
                                    availability |-> availability]
                              ELSE roster[k]]
    /\ UNCHANGED <<inputs, results, book, slotvars, pc, work_study_workers, days_list,
                   day, random_operation_hours, time_slots_to_fill, seed, previous,
                   saved_schedule, viewed, edits, hours_table>>

\* delete_worker(table, email), confirmed
delete_worker(email) ==
    /\ pc = "idle"
    /\ IF ~\E k \in 1..Len(roster) : roster[k].email = email
       THEN UNCHANGED roster
       ELSE roster' = SelectSeq(roster, LAMBDA row : row.email # email)
    /\ UNCHANGED <<inputs, results, book, slotvars, pc, work_study_workers, days_list,
                   day, random_operation_hours, time_slots_to_fill, seed, previous,
                   saved_schedule, viewed, edits, hours_table>>

\* the worker record do_generate_schedule builds for a row of the file
LoadedWorker(row) ==
    [name |-> NamePool[CHOOSE k \in 1..Len(NamePool) :
                          /\ FirstNamePool[k] = row.first_name
                          /\ LastNamePool[k] = row.last_name],
     email |-> CellOf(Strip(Chars(row.email))),
     work_study |-> row.work_study,
     availability |-> parse_availability(row.availability)]

\* do_generate_schedule up to its call of create_shifts_from_availability: the
\* file is read and cleaned, and the engine starts on the workers of its rows
do_generate_schedule ==
    /\ pc = "idle"
    /\ roster # <<>>
    /\ LET df == clean_excel_file(roster)
           loaded == [k \in 1..Len(df) |-> LoadedWorker(df[k])]
       IN /\ workers' = loaded
          /\ assigned_hours' = [e \in {loaded[i].email : i \in 1..Len(loaded)} |-> ZERO]
          /\ assigned_days' = [e \in {loaded[i].email : i \in 1..Len(loaded)} |-> {}]
          /\ work_study_workers' = {i \in 1..Len(loaded) : loaded[i].work_study}
    /\ pc' = "prepass"
    /\ UNCHANGED <<hours_of_operation, max_hours_per_worker, max_workers_per_shift,
                   results, schedule, unfilled_shifts, slotvars, days_list, day,
                   random_operation_hours, time_slots_to_fill, session>>

\* ------------------------------------------------------------------------
\* A second call with the same arguments
\* ------------------------------------------------------------------------
\* what create_shifts_from_availability returns
Returned ==
    [schedule |-> schedule, assigned_hours |-> assigned_hours,
     low_hour_workers |-> low_hour_workers, unassigned_workers |-> unassigned_workers,
     alternative_solutions |-> alternative_solutions,
     unfilled_shifts |-> unfilled_shifts, work_study_issues |-> work_study_issues]

\* do_generate_schedule once more on the same workplace, roster and limits: the
\* call seeds the generator with the clock, random.seed(datetime.now()
\* .timestamp()), whatever seed the caller had set, and starts from empty books
GenerateAgain ==
    /\ pc = "done"
    /\ seed < MaxRuns
    /\ seed' = seed + 1
    /\ previous' = <<Returned>>
    /\ viewed' = <<>>
    /\ schedule' = <<>>
    /\ unfilled_shifts' = <<>>
    /\ assigned_hours' = [e \in DOMAIN assigned_hours |-> ZERO]
    /\ assigned_days' = [e \in DOMAIN assigned_days |-> {}]
    /\ pc' = "prepass"
    /\ work_study_workers' = {i \in WorkerIdx : workers[i].work_study}
    /\ days_list' = {}
    /\ day' = "none"
    /\ random_operation_hours' = {}
    /\ time_slots_to_fill' = <<>>
    /\ slot_start' = ZERO
    /\ slot_end' = ZERO
    /\ possible_lengths' = {}
    /\ current_hour' = ZERO
    /\ low_hour_workers' = <<>>
    /\ unassigned_workers' = <<>>
    /\ work_study_issues' = <<>>
    /\ alternative_solutions' = <<>>
    /\ UNCHANGED <<inputs, saved_schedule, office>>

\* the steps of one call of create_shifts_from_availability
Run ==
    \/ \E i \in WorkerIdx : AssignWorkStudy(i)
    \/ BeginCoverage
    \/ \E d \in DaySet : NextDay(d)
    \/ EndDays
    \/ \E k \in 1..MaxOps : NextBlock(k)
    \/ EndBlocks
    \/ NextSlot
    \/ EndSlots
    \/ CreateShift
    \/ Diagnostics

Next ==
    \/ Run
    \/ SaveSchedule
    \/ ViewCurrentSchedule

Spec == Init /\ [][Next]_vars

\* sessions of up to MaxRuns calls, on the bounded inputs with one roster row
\* and one worker per shift
InitAgain ==
    /\ Init
    /\ Len(workers) = 1
    /\ max_workers_per_shift = 1
    /\ max_hours_per_worker <= MaxHoursBound

NextAgain ==
    \/ Run
    \/ GenerateAgain

SpecAgain == InitAgain /\ [][NextAgain]_vars

\* one generation that runs to its return: the call is a single thread, so a
\* step of the run that can be taken is taken. This is weak fairness of Run,
\* with ENABLED <<Run>>_vars written out: a step of Run can be taken exactly
\* when the run has not returned.
FairSpec == Init /\ [][Run]_vars /\ ([]<>(pc = "done") \/ []<><<Run>>_vars)

\* one generation on the all-day inputs
InitAllDay ==
    /\ AllDayInputs
    /\ InitRun

SpecAllDay == InitAllDay /\ [][Run]_vars

\* one generation called with a limit that is not positive
InitUnchecked ==
    /\ UncheckedInputs
    /\ InitRun

SpecUnchecked == InitUnchecked /\ [][Run]_vars

\* one generation on a Monday of one block with one worker per shift, followed
\* by manual reassignments
InitEdit ==
    /\ Init
    /\ Len(hours_of_operation["Monday"]) = 1
    /\ hours_of_operation["Tuesday"] = <<>>
    /\ max_hours_per_worker = MaxHoursBound
    /\ max_workers_per_shift = 1

NextEdit ==
    \/ Run
    \/ EditShift

SpecEdit == InitEdit /\ [][NextEdit]_vars

\* the Workers tab of a workplace that is open Monday 10:00-22:00 and has no
\* Excel file yet; the limits are the defaults of the Generate dialog
InitRoster ==
    /\ hours_of_operation =
          [d \in DaySet |-> IF d = "Monday" THEN <<Op(T(10, 0), T(22, 0))>> ELSE <<>>]
    /\ workers = <<>>
    /\ max_hours_per_worker = 20
    /\ max_workers_per_shift = 1
    /\ schedule = <<>>
    /\ unfilled_shifts = <<>>
    /\ assigned_hours = <<>>
    /\ assigned_days = <<>>
    /\ pc = "idle"
    /\ work_study_workers = {}
    /\ days_list = {}
    /\ day = "none"
    /\ random_operation_hours = {}
    /\ time_slots_to_fill = <<>>
    /\ slot_start = ZERO
    /\ slot_end = ZERO
    /\ possible_lengths = {}
    /\ current_hour = ZERO
    /\ low_hour_workers = <<>>
    /\ unassigned_workers = <<>>
    /\ work_study_issues = <<>>
    /\ alternative_solutions = <<>>
    /\ seed = 1
    /\ previous = <<>>
    /\ saved_schedule = <<>>
    /\ viewed = <<>>
    /\ edits = 0
    /\ hours_table = <<>>
    /\ roster = <<>>

NextRoster ==
    \/ \E file \in Uploads : upload_excel(file)
    \/ \E name \in NameInputs : \E email \in RosterEmails : \E work_study \in BOOLEAN :
          \E availability \in TextChoices :
             \/ save_worker(name[1], name[2], email, work_study, availability)
             \/ update_worker(email, name[1], name[2], work_study, availability)
    \/ \E email \in RosterEmails : delete_worker(email)
    \/ do_generate_schedule

SpecRoster == InitRoster /\ [][NextRoster]_vars

\* ------------------------------------------------------------------------
\* Properties
\* ------------------------------------------------------------------------
ScheduledDays == DOMAIN schedule
ShiftIdx(d) == 1..Len(schedule[d])

\* the bounds of a stored shift, read back from its strings
StartOf(s) == time_to_hour(s.start)
EndOf(s) == time_to_hour(s.end)
Duration(s) == FSub(EndOf(s), StartOf(s))

OnShift(i, s) == \E n \in 1..Len(s.raw_assigned) : s.raw_assigned[n] = workers[i].email
Hours(i) == assigned_hours[workers[i].email]
Max2(a, b) == IF a >= b THEN a ELSE b

\* some single window of worker i on day d contains [a, b]
WindowContains(i, d, a, b) ==
    \E k \in 1..Len(workers[i].availability[d]) :
        /\ FLe(workers[i].availability[d][k].start_hour, a)
        /\ FLe(b, workers[i].availability[d][k].end_hour)

\* some window of worker i on day d overlaps [a, b)
WindowOverlaps(i, d, a, b) ==
    \E k \in 1..Len(workers[i].availability[d]) :
        /\ FLt(workers[i].availability[d][k].start_hour, b)
        /\ FLt(a, workers[i].availability[d][k].end_hour)

\* some operation block contains a 5-hour window that lies inside one
\* availability window of worker i (in whole minutes)
HasFiveHourWindow(i) ==
    \E d \in DaySet :
      \E n \in 1..Len(hours_of_operation[d]) :
        \E k \in 1..Len(workers[i].availability[d]) :
           Min2(OpEnd(hours_of_operation[d][n])[1],
                workers[i].availability[d][k].end_hour[1])
             - Max2(OpStart(hours_of_operation[d][n])[1],
                    workers[i].availability[d][k].start_hour[1])
           >= WORK_STUDY_HOURS * HOUR

\* the shift a step of the peeling loop appends to the day
NewShift == schedule'[day][Len(schedule'[day])]

\* a step of the pre-pass appends to day d the shift [s, s + 5] of worker i
PrePassAdds(i, d, s) ==
    /\ d \in DOMAIN schedule'
    /\ Len(schedule'[d]) >= 1
    /\ LET shift == schedule'[d][Len(schedule'[d])]
       IN /\ schedule' = AppendShift(schedule, d, shift)
          /\ shift.raw_assigned = <<workers[i].email>>
          /\ shift.start = hour_to_time_str(s)
          /\ shift.end = hour_to_time_str(FAdd(s, FromInt(WORK_STUDY_HOURS)))

\* the starts the pre-pass tries on day d
StartsOfDay(d) ==
    UNION {possible_starts(hours_of_operation[d][k]) : k \in 1..Len(hours_of_operation[d])}

\* C1: after create_shifts_from_availability returns, every worker's assigned
\* hours are at most max_hours_per_worker, work-study workers included.
C1_HoursWithinCap ==
    pc = "done" => \A i \in WorkerIdx : FLe(Hours(i), FromInt(max_hours_per_worker))

\* C2: at every point of the run a work-study worker has exactly 0 or exactly 5
\* assigned hours, is on at most one shift, and has 5 hours exactly when it is
\* on a shift; its hours change only from 0 to 5, in the pre-pass by a shift
\* cut as [s, s + 5], in the coverage pass by a shift whose computed duration
\* is exactly 5.
C2_WorkStudyZeroOrFive ==
    /\ [](\A i \in WorkerIdx :
            workers[i].work_study =>
                /\ Hours(i) \in {ZERO, FromInt(WORK_STUDY_HOURS)}
                /\ (Hours(i) = FromInt(WORK_STUDY_HOURS)) <=>
                      (\E d \in ScheduledDays : \E n \in ShiftIdx(d) :
                          OnShift(i, schedule[d][n]))
                /\ \A d \in ScheduledDays : \A n \in ShiftIdx(d) :
                      OnShift(i, schedule[d][n]) =>
                          \A d2 \in ScheduledDays : \A n2 \in ShiftIdx(d2) :
                              OnShift(i, schedule[d2][n2]) => (d2 = d /\ n2 = n))
    /\ [][\A i \in WorkerIdx :
            (workers[i].work_study /\ assigned_hours'[workers[i].email] # Hours(i)) =>
                /\ Hours(i) = ZERO
                /\ pc \in {"prepass", "peel"}
                /\ pc = "peel" =>
                      /\ OnShift(i, NewShift)
                      /\ FSub(current_hour', current_hour) = FromInt(WORK_STUDY_HOURS)
                /\ pc = "prepass" =>
                      \E d \in DaySet : \E s \in StartsOfDay(d) : PrePassAdds(i, d, s)]_vars

\* a work-study worker holds its 5 hours and is kept off a later regular shift
\* that lies inside its availability
C2_Witness ==
    \E i \in WorkerIdx : \E d \in ScheduledDays : \E n \in ShiftIdx(d) :
        /\ workers[i].work_study
        /\ Hours(i) = FromInt(WORK_STUDY_HOURS)
        /\ ~schedule[d][n].is_work_study
        /\ WindowContains(i, d, StartOf(schedule[d][n]), EndOf(schedule[d][n]))
        /\ ~OnShift(i, schedule[d][n])
        /\ schedule[d][n].assigned = <<"Unfilled">>

\* C3: no shift of the schedule, pre-pass or regular, has more than
\* max_workers_per_shift workers assigned.
C3_AtMostMaxWorkersPerShift ==
    \A d \in ScheduledDays : \A n \in ShiftIdx(d) :
        /\ Len(schedule[d][n].raw_assigned) <= max_workers_per_shift
        /\ schedule[d][n].assigned # <<"Unfilled">> =>
              Len(schedule[d][n].assigned) <= max_workers_per_shift

\* a shift with more eligible workers than places, filled to the limit
C3_Witness ==
    \E d \in ScheduledDays : \E n \in ShiftIdx(d) :
        /\ Len(schedule[d][n].all_available) > max_workers_per_shift
        /\ Len(schedule[d][n].raw_assigned) = max_workers_per_shift

\* C4: a worker is assigned to a shift only when a single availability window
\* of the worker on the shift's day contains the whole shift, from the start
\* hour to the end hour the engine cut it at; this holds for the shifts of the
\* pre-pass and of the coverage pass, and no other step touches a shift.
C4_StrictContainment ==
    [][/\ pc = "peel" =>
             \A i \in WorkerIdx :
                 OnShift(i, NewShift) => WindowContains(i, day, current_hour, current_hour')
       /\ (pc = "prepass" /\ schedule' # schedule) =>
             \E i \in WorkerIdx : \E d \in DaySet : \E s \in StartsOfDay(d) :
                 /\ PrePassAdds(i, d, s)
                 /\ WindowContains(i, d, s, FAdd(s, FromInt(WORK_STUDY_HOURS)))
       /\ pc \notin {"peel", "prepass"} =>
             \A d \in ScheduledDays : schedule'[d] = schedule[d]]_vars

\* a filled shift, and a shift left unfilled although a worker with spare hours
\* has a window that overlaps it
C4_Witness ==
    /\ \E d \in ScheduledDays : \E n \in ShiftIdx(d) : schedule[d][n].raw_assigned # <<>>
    /\ \E d \in ScheduledDays : \E n \in ShiftIdx(d) : \E i \in WorkerIdx :
          /\ schedule[d][n].assigned = <<"Unfilled">>
          /\ ~workers[i].work_study
          /\ FLe(FAdd(Hours(i), Duration(schedule[d][n])), FromInt(max_hours_per_worker))
          /\ WindowOverlaps(i, d, StartOf(schedule[d][n]), EndOf(schedule[d][n]))
          /\ ~WindowContains(i, d, StartOf(schedule[d][n]), EndOf(schedule[d][n]))

\* C5: a work-study worker for whom some operation block contains a 5-hour
\* window inside one of its availability windows ends the run with 5 hours.
C5_WorkStudyGuarantee ==
    pc = "done" =>
        \A i \in WorkerIdx :
            (workers[i].work_study /\ HasFiveHourWindow(i)) =>
                Hours(i) = FromInt(WORK_STUDY_HOURS)

\* C6: a work-study worker for whom no operation block contains a 5-hour window
\* inside one of its availability windows is never put on a shift, keeps 0
\* hours, and is reported in work_study_issues and unassigned_workers.
C6_NoWindowNoHours ==
    \A i \in WorkerIdx :
        (workers[i].work_study /\ ~HasFiveHourWindow(i)) =>
            /\ Hours(i) = ZERO
            /\ \A d \in ScheduledDays : \A n \in ShiftIdx(d) : ~OnShift(i, schedule[d][n])
            /\ pc = "done" =>
                  /\ \E n \in 1..Len(work_study_issues) :
                        work_study_issues[n] = <<workers[i].name, ZERO>>
                  /\ \E n \in 1..Len(unassigned_workers) :
                        unassigned_workers[n] = workers[i].name

\* the run is over, and a shift inside the availability of such a worker was
\* generated without the worker
C6_Witness ==
    /\ pc = "done"
    /\ \E i \in WorkerIdx : \E d \in ScheduledDays : \E n \in ShiftIdx(d) :
          /\ workers[i].work_study
          /\ ~HasFiveHourWindow(i)
          /\ WindowContains(i, d, StartOf(schedule[d][n]), EndOf(schedule[d][n]))
          /\ FLe(Duration(schedule[d][n]), FromInt(max_hours_per_worker))

\* C7: every generated shift lasts at least 2 hours or ends at the end of an
\* operation block of its day.
C7_MinLengthOrBlockClosing ==
    \A d \in ScheduledDays : \A n \in ShiftIdx(d) :
        \/ FLe(FromInt(MIN_SLOT_HOURS), Duration(schedule[d][n]))
        \/ \E k \in 1..Len(hours_of_operation[d]) :
              OpEnd(hours_of_operation[d][k]) = EndOf(schedule[d][n])

\* C8 as stated: no shift of the schedule is shorter than the 2-hour minimum.
C8_NoShortShift ==
    \A d \in ScheduledDays : \A n \in ShiftIdx(d) :
        FLe(FromInt(MIN_SLOT_HOURS), Duration(schedule[d][n]))

\* C8 as amended: every step of the peeling loop adds its shift, cut from the
\* cursor to the new cursor, as an entry of its own and leaves the earlier
\* shifts as they are; the shift is shorter than 2 hours only when it is the
\* trailing remainder of the slot: it follows a shift of the same slot, ends
\* at the slot end and ends the loop.
C8_ShortOnlyAsSlotRemainder ==
    [][pc = "peel" =>
          /\ schedule'[day] = Append(schedule[day], NewShift)
          /\ NewShift.start = hour_to_time_str(current_hour)
          /\ NewShift.end = hour_to_time_str(current_hour')
          /\ FLt(FSub(current_hour', current_hour), FromInt(MIN_SLOT_HOURS)) =>
                /\ FLt(slot_start, current_hour)
                /\ FLt(FSub(slot_end, current_hour), FromInt(MIN_SLOT_HOURS))
                /\ current_hour' = slot_end
                /\ pc' = "slots"]_vars

\* a slot was closed by a remainder shorter than 2 hours that stands as its own
\* shift after the preceding shift of the slot
C8_Witness ==
    /\ pc = "slots"
    /\ day \in ScheduledDays
    /\ Len(schedule[day]) >= 2
    /\ LET last == schedule[day][Len(schedule[day])]
           prev == schedule[day][Len(schedule[day]) - 1]
       IN /\ FLt(Duration(last), FromInt(MIN_SLOT_HOURS))
          /\ EndOf(last) = slot_end
          /\ current_hour = slot_end
          /\ StartOf(last) = EndOf(prev)
          /\ FLe(slot_start, StartOf(prev))
          /\ ~prev.is_work_study

\* C9: the shifts created for a slot of at least 2 hours partition it: peeling
\* starts at the slot start, every step adds one shift cut from the cursor to
\* the new cursor, the cursor moves forward and never past the slot end, and
\* the loop ends exactly when the cursor is at the slot end; a slot shorter
\* than 2 hours adds no shift, and no shift is added outside the loop.
C9_SlotPartition ==
    [][/\ (pc = "slots" /\ time_slots_to_fill # <<>>) =>
             /\ schedule' = schedule
             /\ <<slot_start', slot_end'>> = Head(time_slots_to_fill)
             /\ IF FLe(FromInt(MIN_SLOT_HOURS), FSub(slot_end', slot_start'))
                THEN pc' = "peel" /\ current_hour' = slot_start'
                ELSE pc' = "slots"
       /\ pc = "peel" =>
             /\ FLe(slot_start, current_hour)
             /\ FLt(current_hour, current_hour')
             /\ FLe(current_hour', slot_end)
             /\ <<slot_start', slot_end', day'>> = <<slot_start, slot_end, day>>
             /\ schedule'[day] = Append(schedule[day], NewShift)
             /\ \A d \in ScheduledDays \ {day} : schedule'[d] = schedule[d]
             /\ NewShift.start = hour_to_time_str(current_hour)
             /\ NewShift.end = hour_to_time_str(current_hour')
             /\ ~NewShift.is_work_study
             /\ pc' = IF current_hour' = slot_end THEN "slots" ELSE "peel"
       /\ pc \notin {"peel", "prepass"} =>
             \A d \in ScheduledDays : schedule'[d] = schedule[d]]_vars

\* the last k shifts of day d run from a to b without gap or overlap
Chain(d, k, a, b) ==
    LET m == Len(schedule[d]) - k
    IN /\ StartOf(schedule[d][m + 1]) = a
       /\ EndOf(schedule[d][m + k]) = b
       /\ \A n \in (m + 1)..(m + k - 1) : EndOf(schedule[d][n]) = StartOf(schedule[d][n + 1])
       /\ \A n \in (m + 1)..(m + k) : ~schedule[d][n].is_work_study

\* a slot of at least 2 hours was covered from its start to its end by two or
\* more shifts
C9_Witness ==
    /\ pc = "slots"
    /\ day \in ScheduledDays
    /\ current_hour = slot_end
    /\ FLe(FromInt(MIN_SLOT_HOURS), FSub(slot_end, slot_start))
    /\ \E k \in 2..Len(schedule[day]) : Chain(day, k, slot_start, slot_end)

\* C10: a regular shift overlaps no shift that stands before it in the schedule
\* of its day (the shifts of the pre-pass, of earlier blocks and of earlier
\* slots).
C10_NoOverlapWithEarlierShifts ==
    \A d \in ScheduledDays : \A n, m \in ShiftIdx(d) :
        (m < n /\ ~schedule[d][n].is_work_study) =>
            ~overlaps(StartOf(schedule[d][m]), EndOf(schedule[d][m]),
                      StartOf(schedule[d][n]), EndOf(schedule[d][n]))

\* the workers that pass the filters for the shift a step of the peeling loop
\* cuts, from the cursor to the new cursor, with the hours they have before it
EligibleNow ==
    {i \in WorkerIdx :
        Eligible(workers[i], assigned_hours, day, current_hour, current_hour')}

\* C11: a step of the peeling loop records its shift as unfilled exactly when
\* no worker passes the filters: then the shift's assigned list is the single
\* sentinel "Unfilled", its raw_assigned is empty and exactly one entry with
\* its day, start and end is appended to unfilled_shifts; when some worker
\* passes the filters the shift has workers assigned and unfilled_shifts is
\* left as it is; no other step touches unfilled_shifts.
C11_UnfilledIffNoEligible ==
    [][/\ pc = "peel" =>
             IF EligibleNow = {}
             THEN /\ NewShift.assigned = <<"Unfilled">>
                  /\ NewShift.raw_assigned = <<>>
                  /\ Len(unfilled_shifts') = Len(unfilled_shifts) + 1
                  /\ SubSeq(unfilled_shifts', 1, Len(unfilled_shifts)) = unfilled_shifts
                  /\ LET u == unfilled_shifts'[Len(unfilled_shifts')]
                     IN <<u.day, u.start, u.end>> = <<day, NewShift.start, NewShift.end>>
             ELSE /\ unfilled_shifts' = unfilled_shifts
                  /\ NewShift.raw_assigned # <<>>
                  /\ NewShift.assigned # <<"Unfilled">>
                  /\ Len(NewShift.assigned) = Len(NewShift.raw_assigned)
       /\ pc # "peel" => unfilled_shifts' = unfilled_shifts]_vars

\* the schedule of the day holds a filled regular shift and, after it, a shift
\* recorded as unfilled, which is the last entry of unfilled_shifts
C11_Witness ==
    /\ day \in ScheduledDays
    /\ unfilled_shifts # <<>>
    /\ \E n, m \in ShiftIdx(day) :
          /\ n < m
          /\ ~schedule[day][n].is_work_study
          /\ schedule[day][n].raw_assigned # <<>>
          /\ schedule[day][m].assigned = <<"Unfilled">>
          /\ LET u == unfilled_shifts[Len(unfilled_shifts)]
             IN <<u.day, u.start, u.end>> =
                    <<day, schedule[day][m].start, schedule[day][m].end>>

\* the entries of unfilled_shifts that describe the shift s of day d
UnfilledEntriesOf(d, s) ==
    {k \in 1..Len(unfilled_shifts) :
        <<unfilled_shifts[k].day, unfilled_shifts[k].start, unfilled_shifts[k].end>>
            = <<d, s.start, s.end>>}

\* C12: the available field of an unfilled shift lists every worker whose
\* availability contains the shift, from the start hour to the end hour the
\* engine cut it at, the workers removed by the hour cap or by the work-study
\* filters included.
C12_AvailableKeepsCandidates ==
    \A d \in ScheduledDays : \A n \in ShiftIdx(d) :
        schedule[d][n].assigned = <<"Unfilled">> =>
            \A k \in UnfilledEntriesOf(d, schedule[d][n]) : \A i \in WorkerIdx :
                WindowContains(i, d, unfilled_shifts[k].start_hour,
                               unfilled_shifts[k].end_hour)
                    => workers[i].name \in Range(schedule[d][n].available)

\* C13: a step of the peeling loop assigns min(|eligible|, max_workers_per_shift)
\* distinct workers, all of them eligible, and each of them has, before the
\* step, at most the assigned hours of every eligible worker the step leaves
\* out.
C13_FairSelection ==
    [][pc = "peel" =>
          LET chosen == {i \in WorkerIdx : OnShift(i, NewShift)}
          IN /\ Len(NewShift.raw_assigned) =
                    Min2(Cardinality(EligibleNow), max_workers_per_shift)
             /\ Cardinality(chosen) = Len(NewShift.raw_assigned)
             /\ chosen \subseteq EligibleNow
             /\ \A a \in chosen : \A b \in EligibleNow \ chosen :
                   FLe(Hours(a), Hours(b))]_vars

\* the last shift of the day had more eligible workers than places, and a
\* worker it took had fewer hours before it than an eligible worker it left out
C13_Witness ==
    /\ pc \in {"peel", "slots"}
    /\ day \in ScheduledDays
    /\ schedule[day] # <<>>
    /\ LET last == schedule[day][Len(schedule[day])]
       IN /\ ~last.is_work_study
          /\ Len(last.raw_assigned) = max_workers_per_shift
          /\ \E a, b \in WorkerIdx :
                /\ OnShift(a, last)
                /\ ~OnShift(b, last)
                /\ workers[b].email \in Range(last.all_available)
                /\ FLt(FSub(Hours(a), Duration(last)), Hours(b))

\* the names of the workers in the set S
NameSet(S) == {workers[i].name : i \in S}

\* C14: low_hour_workers is exactly the set of regular workers with more than
\* 0 and less than 4 assigned hours, and it shares no worker with
\* unassigned_workers.
C14_LowHourWorkersPositive ==
    pc = "done" =>
        /\ Range(low_hour_workers) =
              NameSet({i \in WorkerIdx :
                          /\ ~workers[i].work_study
                          /\ FLt(ZERO, Hours(i))
                          /\ FLt(Hours(i), FromInt(LOW_HOURS))})
        /\ Range(low_hour_workers) \cap Range(unassigned_workers) = {}

\* C15: unassigned_workers is exactly the set of workers, work-study or not,
\* with 0 assigned hours, and work_study_issues is exactly the set of
\* work-study workers whose assigned hours are not 5, each listed once with
\* its hours; no regular worker is in work_study_issues.
C15_UnassignedAndWorkStudyIssues ==
    pc = "done" =>
        /\ Range(unassigned_workers) = NameSet({i \in WorkerIdx : Hours(i) = ZERO})
        /\ Len(unassigned_workers) = Cardinality(Range(unassigned_workers))
        /\ Range(work_study_issues) =
              {<<workers[i].name, Hours(i)>> :
                  i \in {j \in WorkerIdx :
                            /\ workers[j].work_study
                            /\ Hours(j) # FromInt(WORK_STUDY_HOURS)}}
        /\ Len(work_study_issues) = Cardinality(Range(work_study_issues))
        /\ \A i \in WorkerIdx : \A n \in 1..Len(work_study_issues) :
              ~workers[i].work_study => work_study_issues[n][1] # workers[i].name

\* the run ended with a work-study worker without hours, reported in both
\* lists, next to a regular worker with hours, reported in neither
C15_Witness ==
    /\ pc = "done"
    /\ \E i, j \in WorkerIdx :
          /\ workers[i].work_study
          /\ Hours(i) = ZERO
          /\ workers[i].name \in Range(unassigned_workers)
          /\ <<workers[i].name, ZERO>> \in Range(work_study_issues)
          /\ ~workers[j].work_study
          /\ FLt(ZERO, Hours(j))
          /\ workers[j].name \notin Range(unassigned_workers)

\* C16: a worker is suggested for an unfilled shift only if its availability
\* contains the shift and the duration of the shift is at most 1.5 times
\* max_hours_per_worker.
C16_AlternativesWithinOneAndHalf ==
    pc = "done" =>
        \A k \in 1..Len(unfilled_shifts) :
            LET u == unfilled_shifts[k]
                key == <<u.day, u.start, u.end>>
            IN key \in DOMAIN alternative_solutions =>
                  \A i \in WorkerIdx :
                      workers[i].name \in Range(alternative_solutions[key]) =>
                          /\ WindowContains(i, u.day, u.start_hour, u.end_hour)
                          /\ FLe(FSub(u.end_hour, u.start_hour),
                                 OneAndHalf(FromInt(max_hours_per_worker)))

\* C18: when the run is over every worker's assigned hours equal the sum of
\* the durations of the stored shifts that list the worker, and the three
\* diagnostic lists computed from the recalculated hours are the lists the
\* run returned.
C18_DiagnosticsRepeatable ==
    pc = "done" =>
        /\ RecalculatedHours(schedule) = assigned_hours
        /\ LowHourWorkers(RecalculatedHours(schedule)) = low_hour_workers
        /\ UnassignedWorkers(RecalculatedHours(schedule)) = unassigned_workers
        /\ WorkStudyIssues(RecalculatedHours(schedule)) = work_study_issues

\* the run was given the long-day inputs
LongDay ==
    /\ hours_of_operation["Monday"] = <<Op(T(10, 0), T(22, 0))>>
    /\ hours_of_operation["Tuesday"] = <<>>
    /\ Len(workers) = 1
    /\ ~workers[1].work_study
    /\ workers[1].availability["Monday"] = <<ParseWindow(Entry("Monday", T(10, 0), T(18, 0)))>>
    /\ workers[1].availability["Tuesday"] = <<>>
    /\ max_hours_per_worker = 20
    /\ max_workers_per_shift = 1

\* C19: on the long-day inputs, at every point of the run and for every random
\* choice, each shift the worker is assigned to lies within [10:00, 18:00], the
\* worker has at most 8 assigned hours, and every shift that intersects
\* 18:00-22:00 is unfilled.
C19_LongDayScenario ==
    LongDay =>
        /\ FLe(Hours(1), FromInt(8))
        /\ \A d \in ScheduledDays : \A n \in ShiftIdx(d) :
              /\ OnShift(1, schedule[d][n]) =>
                    /\ d = "Monday"
                    /\ FLe(FromInt(10), StartOf(schedule[d][n]))
                    /\ FLe(EndOf(schedule[d][n]), FromInt(18))
              /\ overlaps(StartOf(schedule[d][n]), EndOf(schedule[d][n]),
                          FromInt(18), FromInt(22)) =>
                    /\ schedule[d][n].assigned = <<"Unfilled">>
                    /\ schedule[d][n].raw_assigned = <<>>

\* a run on the long-day inputs ended with the worker on shifts and with an
\* unfilled shift that starts before 18:00 and ends after it
C19_Witness ==
    /\ LongDay
    /\ pc = "done"
    /\ FLt(ZERO, Hours(1))
    /\ \E n \in ShiftIdx("Monday") :
          /\ FLt(StartOf(schedule["Monday"][n]), FromInt(18))
          /\ FLt(FromInt(18), EndOf(schedule["Monday"][n]))
          /\ schedule["Monday"][n].assigned = <<"Unfilled">>

\* C20: when a generated schedule has been saved and loaded again, every day
\* of the loaded schedule holds the shifts of the generated one in the same
\* order, and the low_hour_workers and unassigned_workers of the viewer are
\* the lists the generation returned.
C20_SaveLoadRoundTrip ==
    (pc = "done" /\ viewed # <<>> /\ saved_schedule = <<JsonSchedule(schedule)>>) =>
        /\ DOMAIN viewed[1].schedule = DOMAIN schedule
        /\ \A d \in ScheduledDays : viewed[1].schedule[d] = schedule[d]
        /\ viewed[1].low_hour_workers = low_hour_workers
        /\ viewed[1].unassigned_workers = unassigned_workers

\* C17: a run that follows another run on the same hours of operation, roster
\* and limits returns the schedule, assigned hours and diagnostic lists the
\* earlier run returned (the caller has no seed to hand over but the one it
\* sets on the generator before the call).
C17_SameInputsSameResult ==
    (pc = "done" /\ previous # <<>>) => previous[1] = Returned

\* ------------------------------------------------------------------------
\* C21: an operation block and an availability window written with the same
\* start and end times normalise to the same interval of decimal hours
\* (the case end = start included).
C21_UniformNormalisation ==
    \A d \in DaySet : \A k \in 1..Len(hours_of_operation[d]) :
       \A i \in WorkerIdx : \A wd \in DaySet :
          \A n \in 1..Len(workers[i].availability[wd]) :
             LET op == hours_of_operation[d][k]
                 window == workers[i].availability[wd][n]
             IN (window.start = op.start /\ window.end = op.end) =>
                   /\ window.start_hour = OpStart(op)
                   /\ window.end_hour = OpEnd(op)

\* ------------------------------------------------------------------------
\* C22: a call whose max_hours_per_worker or max_workers_per_shift is not
\* positive is rejected before anything is scheduled: no shift is created, no
\* worker gets hours, and the call returns no result.
C22_NonPositiveRejected ==
    (max_hours_per_worker <= 0 \/ max_workers_per_shift <= 0) =>
        /\ \A d \in ScheduledDays : schedule[d] = <<>>
        /\ \A i \in WorkerIdx : assigned_hours[workers[i].email] = ZERO
        /\ pc # "done"

\* ------------------------------------------------------------------------
\* C23: every run on well-formed inputs ends and returns a complete result,
\* whether or not any worker can cover a shift: the run reaches its return,
\* every open day then has its entry in the schedule, and each iteration of
\* the peeling loop moves the cursor strictly forward, never past the end of
\* the slot, and leaves the loop exactly when the cursor has reached that end.
C23_Terminates ==
    /\ <>(pc = "done")
    /\ [](pc = "done" =>
            \A d \in DaySet : hours_of_operation[d] # <<>> => d \in ScheduledDays)
    /\ [](pc = "peel" => FLt(current_hour, slot_end))
    /\ [][pc = "peel" =>
            /\ FLt(current_hour, current_hour')
            /\ FLe(current_hour', slot_end)
            /\ (pc' = "peel") <=> FLt(current_hour', slot_end)]_vars

\* a run has returned with shifts on the schedule, all of them unfilled, and
\* no worker with any hours
C23_Witness ==
    /\ pc = "done"
    /\ \E d \in ScheduledDays : schedule[d] # <<>>
    /\ \A d \in ScheduledDays : \A n \in ShiftIdx(d) :
          schedule[d][n].assigned = <<"Unfilled">>
    /\ \A i \in WorkerIdx : assigned_hours[workers[i].email] = ZERO

\* ------------------------------------------------------------------------
\* C24: after manual reassignments the aggregates held with the schedule are
\* those the generation formulas give on the edited schedule: assigned_hours
\* is the sum of the durations of the shifts a worker is on, the low-hour and
\* unassigned lists are the ones the generation would compute from these
\* hours, and only workers who are not work-study are classified low-hour.
C24_AggregatesRecomputed ==
    (pc = "done" /\ edits > 0) =>
        /\ assigned_hours = RecalculatedHours(schedule)
        /\ low_hour_workers = LowHourWorkers(assigned_hours)
        /\ unassigned_workers = UnassignedWorkers(assigned_hours)
        /\ \A i \in WorkerIdx :
              hours_table[workers[i].email] = "Low Hours" => ~workers[i].work_study

\* ------------------------------------------------------------------------
\* C26: after manual reassignments every shift still has at most
\* max_workers_per_shift workers assigned.
C26_EditsKeepMaxWorkers ==
    (pc = "done" /\ edits > 0) =>
        \A d \in ScheduledDays : \A n \in ShiftIdx(d) :
           Len(schedule[d][n].raw_assigned) <= max_workers_per_shift

\* ------------------------------------------------------------------------
\* C25 as claimed: each shift peeled off a slot has the largest length of
\* {2,3,4,5} that fits between the cursor and the end of the slot; when no
\* length fits, the shift ends at the end of the slot.
C25_LargestFittingLength ==
    [][pc = "peel" =>
          LET fits == {l \in shift_lengths :
                          FLe(FAdd(current_hour, FromInt(l)), slot_end)}
          IN IF fits # {}
             THEN \A l \in fits : FLe(FAdd(current_hour, FromInt(l)), current_hour')
             ELSE current_hour' = slot_end]_vars

\* C25: each shift peeled off a slot has one of the lengths of {2,3,4,5} that
\* fit between the cursor and the end of the slot, not necessarily the
\* largest; only when no length fits does the shift take the smallest length
\* cut at the end of the slot, so that it ends there.
C25_SomeFittingLength ==
    [][pc = "peel" =>
          LET fits == {l \in shift_lengths :
                          FLe(FAdd(current_hour, FromInt(l)), slot_end)}
          IN IF fits # {}
             THEN \E l \in fits : current_hour' = FAdd(current_hour, FromInt(l))
             ELSE current_hour' = FMin(FAdd(current_hour, FromInt(MinOf(shift_lengths))),
                                       slot_end)]_vars

\* a 2-hour shift has been peeled off the start of a slot in which a longer
\* length fitted, and no length fits what is left
C25_Witness ==
    /\ pc = "peel"
    /\ current_hour = FAdd(slot_start, FromInt(2))
    /\ FLe(FAdd(slot_start, FromInt(3)), slot_end)
    /\ \A l \in shift_lengths : FLt(slot_end, FAdd(current_hour, FromInt(l)))

\* ------------------------------------------------------------------------
\* C29: no worker is on two shifts of one day whose stored intervals overlap,
\* whatever the roster and the operation blocks of the day (blocks that
\* overlap each other included).
C29_NoDoubleBooking ==
    \A d \in ScheduledDays : \A n, m \in ShiftIdx(d) :
        (m < n /\ Range(schedule[d][m].raw_assigned)
                     \cap Range(schedule[d][n].raw_assigned) # {}) =>
            ~overlaps(StartOf(schedule[d][m]), EndOf(schedule[d][m]),
                      StartOf(schedule[d][n]), EndOf(schedule[d][n]))

\* C30 as claimed: the shifts of one day are pairwise disjoint in time, the
\* dedicated 5-hour shifts of the pre-pass included.
C30_ShiftsOfDayDisjoint ==
    \A d \in ScheduledDays : \A n, m \in ShiftIdx(d) :
        m < n =>
            ~overlaps(StartOf(schedule[d][m]), EndOf(schedule[d][m]),
                      StartOf(schedule[d][n]), EndOf(schedule[d][n]))

\* C27: the emails of the roster stay pairwise distinct under save_worker,
\* update_worker and delete_worker; save_worker with an email (one that has
\* a character other than a blank) that is already in the roster, or with an
\* empty first name, last name or email, leaves the roster unchanged;
\* update_worker leaves every row's email as it was.
C27_EmailPrimaryKey ==
    [][/\ \A a, b \in 1..Len(roster') : a # b => roster'[a].email # roster'[b].email
       /\ \A name \in NameInputs : \A email \in RosterEmails : \A work_study \in BOOLEAN :
            \A availability \in TextChoices :
               /\ (/\ \/ name[1] = "" \/ name[2] = "" \/ email = ""
                      \/ /\ Strip(Chars(email)) # <<>>
                         /\ \E k \in 1..Len(roster) : roster[k].email = email
                   /\ save_worker(name[1], name[2], email, work_study, availability))
                    => roster' = roster
               /\ update_worker(email, name[1], name[2], work_study, availability)
                    => /\ Len(roster') = Len(roster)
                       /\ \A k \in 1..Len(roster) : roster'[k].email = roster[k].email]_vars

\* C28: cleaning drops only the rows without an email: clean_excel_file keeps
\* every row of the roster whose email has a character other than a blank,
\* save_worker keeps every such row when it adds a worker, and
\* do_generate_schedule passes a worker with that email to the engine.
C28_OnlyEmptyEmailDropped ==
    [][/\ \A k \in 1..Len(roster) :
            Strip(Chars(roster[k].email)) # <<>> =>
               \E j \in 1..Len(clean_excel_file(roster)) : clean_excel_file(roster)[j] = roster[k]
       /\ \A name \in NameInputs : \A email \in RosterEmails : \A work_study \in BOOLEAN :
            \A availability \in TextChoices :
               save_worker(name[1], name[2], email, work_study, availability)
                  => \A k \in 1..Len(roster) :
                        Strip(Chars(roster[k].email)) # <<>> =>
                           \E j \in 1..Len(roster') : roster'[j].email = roster[k].email
       /\ do_generate_schedule
            => \A k \in 1..Len(roster) :
                  Strip(Chars(roster[k].email)) # <<>> =>
                     \E i \in 1..Len(workers') : workers'[i].email = roster[k].email]_vars

====
